---- MODULE Spec2Model ----
(***************************************************************************)
(* The Wi-Fi connection manager of services/net/src/connection_manager.rs. *)
(*                                                                         *)
(* The main loop of connection_manager() is a single consumer: it takes    *)
(* one message from its inbox and runs the handler to completion.  Each    *)
(* action below is one handler, translated statement by statement.  The    *)
(* inputs of a handler (what the EC, the PDDB and the hash sets' iteration *)
(* order answer during that handler) are drawn with \E from small sets.    *)
(*                                                                         *)
(* A handler is written as an operator on a record m holding the loop's    *)
(* local variables, so that the loops and early `continue`s of the code    *)
(* can be followed step by step; the action copies the record back into    *)
(* the variables.                                                          *)
(***************************************************************************)
EXTENDS Integers, Sequences, FiniteSets, TLC

(***************************************************************************)
(* Program constants.                                                      *)
(***************************************************************************)
BOOT_POLL_INTERVAL_MS == 3758

POLL_INTERVAL_MS == 10151

INTERVALS_BEFORE_RETRY == 3

(***************************************************************************)
(* Bounds of the model.                                                    *)
(***************************************************************************)
\* The SSIDs the selector's own specification ranges over are 1..MaxSsid.
MaxSsid == 3

\* The history of Polls spent waiting for a connection counts up to MaxCount.
MaxCount == 4

\* The number of servers that may subscribe to the status updates.
MaxSubs == 2

\* The Pump messages that may be queued at, or in the hands of, the pump
\* thread: a Run that would send one more waits (send_message blocks on a
\* full queue).
MaxTokens == 3

\* activity_interval is an AtomicU32 that only grows by fetch_add and is only
\* ever compared with current_interval; the model lets it saturate just above
\* the longer poll interval, so every comparison has the outcome it has in the
\* code (short of the wrap at 2^32).
ActivityCap == POLL_INTERVAL_MS + 1

(***************************************************************************)
(* Value sets.                                                             *)
(***************************************************************************)
WifiStates ==
    {"Unknown", "Connecting", "WaitDhcp", "Retry", "InvalidAp",
     "InvalidAuth", "Connected", "Disconnected", "Error"}

\* the states in which a Poll runs the selection
IdleStates == {"Unknown", "Disconnected", "InvalidAp", "InvalidAuth"}

ConnectResults ==
    {"Success", "NoMatchingAp", "Timeout", "Reject", "AuthFail",
     "Aborted", "Error", "Pending"}

\* what wlan_sync_state() reports after a resume; Disconnected stands for
\* every link state that is neither Connected nor WFXError, which the code
\* handles in one `_ =>` arm
LinkStates == {"Connected", "WFXError", "Disconnected"}

\* the access points of the main specification
SSIDS == {"home"}

\* the RSSI the EC reports; 255 is what the code substitutes for a failed read
RssiValues == {40}

RssiReads == RssiValues \cup {255}

\* the label of a handler that did not read the RSSI: no u8
NoRssi == 2 ^ 8

\* WlanStatus, reduced to what the code reads of it.  ssid is the empty set
\* for None and {r} for Some(SsidInfo{rssi: r, ..}); origin stands for all the
\* other fields: they are those of WlanStatusIpc::default() or those the EC
\* reported in wlan_status().
DefaultStatus == [ssid |-> {}, origin |-> "default"]

EcStatuses ==
    {[ssid |-> x, origin |-> "ec"] : x \in {{}} \cup {{r} : r \in RssiValues}}

\* what opening and reading the passphrase of the chosen SSID can give
PwResults == {"ok", "open_err", "read_err", "not_utf8"}

\* what pddb.list_keys(AP_DICT_NAME) can give
KeyLists == {[ok |-> FALSE, keys |-> {}]} \cup
            {[ok |-> TRUE, keys |-> k] : k \in SUBSET SSIDS}

\* The answers the EC and the PDDB may give to a handler.  AnyEc: whatever
\* they can answer.  NiceEc: the PDDB is mounted and holds the passphrase of
\* every SSID, and every SSID is in range and seen by every fetch.
AnyEc ==
    [mounted |-> BOOLEAN, keys |-> KeyLists, pw |-> PwResults,
     status |-> EcStatuses, rssi |-> RssiReads, slist |-> SUBSET SSIDS]

NiceEc ==
    [mounted |-> {TRUE}, keys |-> {[ok |-> TRUE, keys |-> SSIDS]},
     pw |-> {"ok"},
     status |-> {[ssid |-> {r}, origin |-> "ec"] : r \in RssiValues},
     rssi |-> RssiValues, slist |-> {SSIDS}]

\* the servers that subscribe to the status updates; a subscriber's SID, and
\* the CID xous::connect gives for it, are both its number here
Subs == 1..MaxSubs

\* the orders in which a HashMap's keys() can visit the keys c
Orders(c) ==
    {o \in [1..Cardinality(c) -> c] : \A i, j \in DOMAIN o : o[i] = o[j] => i = j}

\* What a handler can meet when it broadcasts to the subscribers c: the
\* subscribers to which buf.send fails, and the order of the iteration.
DeliveryEnvs(c) ==
    [undeliverable : SUBSET c, order : Orders(c)]

Min(a, b) == IF a < b THEN a ELSE b

VARIABLES
    \* locals of connection_manager()
    rev_ok, mounted, current_interval, activity_interval,
    wifi_stats_cache, wifi_state, last_wifi_state,
    ssid_list, ssid_attempted, wait_count, scan_state,
    \* the keys of status_subscribers, and the connections the process holds to
    \* subscribers' servers (made by xous::connect, ended by xous::disconnect)
    status_subscribers, sub_conns,
    \* set when an unwrap()/expect() of a handler panicked: the thread is gone
    panicked,
    \* where the main loop is: "recv" at receive_message, inside the Run
    \* handler ("run_load" before pumping.load, "run_send" before the send),
    \* inside the Quit handler ("quit_wait": blocked in the send to the pump),
    \* or "exited"; and whether Quit's caller has been answered
    main_pc, caller_acked,
    \* the pump thread: the two flags it shares with the main loop, its inbox,
    \* where it is ("recv" at receive_message, "check" before run.load,
    \* "store" before pumping.store(true), "emit" before the Poll is sent,
    \* "sleep", "clear" before pumping.store(false), "exit" after the answer to
    \* Quit, "done"), and whether it has answered Quit
    run, pumping, pump_q, pump_pc, pump_acked,
    \* history: whether a Stop was processed and a Run since ("never",
    \* "stopped", "rerun"), the Polls the pump emitted since the last Stop
    \* with no Run after it (-1: there is none), and whether a Run was
    \* processed at all
    stopped, stop_polls, run_seen,
    \* What is observed of a run.  A specification observes the handler of one
    \* opcode (track is that opcode) or one history (track names it; with
    \* "scan", also the scan starts of every handler; with "conn", the opcode
    \* and the broadcasts of every handler); what it does not observe stays at
    \* its initial value.
    track,
    \* observed of the last handler: the commands it issued, in order, the
    \* snapshots it broadcast to the subscribers, in order, and the message it
    \* processed, with its inputs
    out, sent, last,
    \* observed of the last handler: the deliveries of its broadcasts, in
    \* order; n is the number of the broadcast within the handler
    delivered,
    \* history: joins issued since the last leave, radio reset or Connect
    \* interrupt
    joins,
    \* history: a scan start was issued in or after the handler that most
    \* recently changed wifi_state
    scan_req,
    \* history: default snapshots broadcast since wifi_state last left
    \* Connected (-1: it never left)
    dflt,
    \* history: Polls processed, and Polls that reached the state dispatch,
    \* since the join that entered Connecting, while still Connecting/WaitDhcp
    \* (-1: not waiting for a join)
    polls_waiting, recon_waiting,
    \* history: the Polls processed since the Poll that issued the last join,
    \* no other message having been processed since (-1: there is no such
    \* join, or another message came after it)
    poll_streak,
    \* history: the SSIDs fetched since the most recent scan start (window),
    \* whether a WlanSsidScanFinished interrupt has ended that scan since
    \* (finished), and the SSIDs fetched since construction or the most recent
    \* Disconnect interrupt (seen)
    window, finished, seen,
    \* The selector's own specification: get_next_ssid is called again and
    \* again on the sets sel_visible (ssid_list), sel_attempted (ssid_attempted,
    \* at first sel_attempted0) and sel_known (ap_list).  sel_ret is what the
    \* last call returned, sel_before the two sets as that call found them,
    \* sel_returned all that was returned, sel_calls the number of calls.
    sel_visible, sel_known, sel_attempted, sel_attempted0, sel_returned,
    sel_calls, sel_ret, sel_before

machineVars ==
    <<rev_ok, mounted, current_interval, activity_interval,
      wifi_stats_cache, wifi_state, last_wifi_state,
      ssid_list, ssid_attempted, wait_count, scan_state,
      status_subscribers, sub_conns, panicked>>

loopVars == <<main_pc, caller_acked>>

pumpVars == <<run, pumping, pump_q, pump_pc, pump_acked>>

pumpHistory == <<stopped, stop_polls, run_seen>>

stepVars == <<track, out, sent, last, delivered>>

historyVars ==
    <<joins, scan_req, dflt, polls_waiting, recon_waiting, poll_streak,
      window, finished, seen>>

selVars ==
    <<sel_visible, sel_known, sel_attempted, sel_attempted0, sel_returned,
      sel_calls, sel_ret, sel_before>>

vars ==
    <<machineVars, loopVars, pumpVars, stepVars, historyVars, pumpHistory,
      selVars>>

(***************************************************************************)
(* The record a handler works on.                                          *)
(***************************************************************************)
\* the label of a handler that has read no input yet
Label(op) ==
    [op |-> op, link |-> "none", ints |-> 0, res |-> "none",
     fetch_fail |-> 0, gate |-> FALSE, recon |-> FALSE, rssi |-> NoRssi,
     prev_poll |-> FALSE, prev_rssi |-> NoRssi, sid |-> 0, refused |-> FALSE,
     pddb |-> "unread", pw |-> "none"]

NoLabel == Label("none")

Begin(op) ==
    [rev_ok |-> rev_ok, mounted |-> mounted,
     current_interval |-> current_interval,
     activity_interval |-> activity_interval,
     wifi_stats_cache |-> wifi_stats_cache,
     wifi_state |-> wifi_state, last_wifi_state |-> last_wifi_state,
     ssid_list |-> ssid_list, ssid_attempted |-> ssid_attempted,
     wait_count |-> wait_count, scan_state |-> scan_state,
     status_subscribers |-> status_subscribers, sub_conns |-> sub_conns,
     panicked |-> panicked, out |-> <<>>, sent |-> <<>>, delivered |-> <<>>,
     undeliverable |-> {}, order |-> <<>>,
     last |-> [Label(op)
                 EXCEPT !.prev_poll = (last.op = "Poll"),
                        !.prev_rssi = last.rssi]]

\* the handler will meet env when it broadcasts
WithEnv(m, env) ==
    [m EXCEPT !.undeliverable = env.undeliverable, !.order = env.order]

\* a command to the EC or the net stack, or a message the handler posts to its
\* own inbox; scan is scan_state at the moment of the call
Cmd(m, op) == [m EXCEPT !.out = Append(@, [op |-> op, scan |-> m.scan_state])]

\* com.ssid_fetch_as_list() gave Ok(slist); fin: in the WlanSsidScanFinished
\* arm
Fetched(m, slist, fin) ==
    [m EXCEPT !.out = Append(@, [op |-> "fetch", scan |-> m.scan_state,
                                 arg |-> slist, fin |-> fin])]

\* a round of the interrupt loop enters the arm of the source src
Handling(m, src) ==
    [m EXCEPT !.out = Append(@, [op |-> "int", scan |-> m.scan_state,
                                 src |-> src])]

\* an unwrap() or expect() that fails
Panic(m) == [m EXCEPT !.panicked = TRUE]

\* buf.send(sub, Update)...unwrap() for the subscribers subs, in that order:
\* a send that fails panics, and the rest is not reached
RECURSIVE Deliver(_, _)
Deliver(m, subs) ==
    IF subs = <<>> THEN m
    ELSE IF Head(subs) \in m.undeliverable
    THEN Panic([m EXCEPT !.last.refused = TRUE])
    ELSE Deliver([m EXCEPT !.delivered =
                               Append(@, [to |-> Head(subs),
                                          snap |-> m.wifi_stats_cache,
                                          n |-> Len(m.sent)])],
                 Tail(subs))

\* for &sub in status_subscribers.keys() { buf.send(sub, Update) }
Broadcast(m) ==
    Deliver([m EXCEPT !.sent = Append(@, m.wifi_stats_cache)], m.order)

\* if scan_state == Idle { com.set_ssid_scanning(true); scan_state = Scanning }
EnsureScanning(m) ==
    IF m.scan_state = "Idle"
    THEN [Cmd(m, "scan_on") EXCEPT !.scan_state = "Scanning"]
    ELSE m

\* leave (or reset the radio), reset the net stack, go to Disconnected, make
\* sure a scan runs, and post a Poll to the own inbox
Restart(m, how) ==
    Cmd(EnsureScanning(
            [Cmd(Cmd(m, how), "net_reset") EXCEPT !.wifi_state = "Disconnected"]),
        "poll")

(***************************************************************************)
(* SuspendResume: reconcile with the link state the EC reports on resume.  *)
(***************************************************************************)
\* a variant that restarts the link whatever WifiState is
ResumeConnected_AlwaysRestart(m) == Restart(m, "leave")

ResumeConnected(m) ==
    IF m.wifi_state \in {"Connected", "Error"}
    THEN m
    ELSE Restart(m, "leave")

\* a variant that snaps Error to Disconnected like the intermediate states
ResumeOther_SnapError(m) ==
    CASE m.wifi_state = "Connected" ->
            LET m1 == Broadcast([Cmd(m, "net_reset")
                                   EXCEPT !.wifi_stats_cache = DefaultStatus])
            IN  IF m1.panicked THEN m1
                ELSE EnsureScanning([m1 EXCEPT !.wifi_state = "Disconnected"])
      [] OTHER -> [m EXCEPT !.wifi_state = "Disconnected"]

ResumeOther(m) ==
    CASE m.wifi_state = "Connected" ->
            LET m1 == Broadcast([Cmd(m, "net_reset")
                                   EXCEPT !.wifi_stats_cache = DefaultStatus])
            IN  IF m1.panicked THEN m1
                ELSE EnsureScanning([m1 EXCEPT !.wifi_state = "Disconnected"])
      [] m.wifi_state = "Error" -> m
      [] OTHER -> [m EXCEPT !.wifi_state = "Disconnected"]

SuspendResumeHandler(m, res_linkstate) ==
    LET m1 == [m EXCEPT !.last.link = res_linkstate]
    IN  CASE res_linkstate = "Connected" -> ResumeConnected(m1)
          [] res_linkstate = "WFXError" -> [m1 EXCEPT !.wifi_state = "Error"]
          [] OTHER -> ResumeOther(m1)

(***************************************************************************)
(* get_next_ssid.  A HashSet iterates in an arbitrary order, so `next()`   *)
(* may give any element: the operator is the set of results a call can     *)
(* have, each the returned Option (the empty set for None) with the two    *)
(* sets passed by mutable reference as the call leaves them.               *)
(***************************************************************************)
\* a variant that does not record the untried candidate it returns
get_next_ssid_Unrecorded(list, attempted, ap_list) ==
    LET all_candidate_list == ap_list \cap list
        untried_candidate_list == all_candidate_list \ attempted
    IN  IF Cardinality(untried_candidate_list) > 0
        THEN {[ret |-> {candidate}, ssid_list |-> list,
               ssid_attempted |-> attempted]
                 : candidate \in untried_candidate_list}
        ELSE IF all_candidate_list # {}
        THEN {[ret |-> {candidate}, ssid_list |-> list,
               ssid_attempted |-> {candidate}]
                 : candidate \in all_candidate_list}
        ELSE {[ret |-> {}, ssid_list |-> list, ssid_attempted |-> {}]}

\* a variant that starts over without clearing ssid_attempted
get_next_ssid_NoClear(list, attempted, ap_list) ==
    LET all_candidate_list == ap_list \cap list
        untried_candidate_list == all_candidate_list \ attempted
    IN  IF Cardinality(untried_candidate_list) > 0
        THEN {[ret |-> {candidate}, ssid_list |-> list,
               ssid_attempted |-> attempted \cup {candidate}]
                 : candidate \in untried_candidate_list}
        ELSE IF all_candidate_list # {}
        THEN {[ret |-> {candidate}, ssid_list |-> list,
               ssid_attempted |-> attempted \cup {candidate}]
                 : candidate \in all_candidate_list}
        ELSE {[ret |-> {}, ssid_list |-> list, ssid_attempted |-> attempted]}

get_next_ssid(list, attempted, ap_list) ==
    LET all_candidate_list == ap_list \cap list
        untried_candidate_list == all_candidate_list \ attempted
    IN  IF Cardinality(untried_candidate_list) > 0
        THEN {[ret |-> {candidate}, ssid_list |-> list,
               ssid_attempted |-> attempted \cup {candidate}]
                 : candidate \in untried_candidate_list}
        ELSE IF all_candidate_list # {}
        THEN {[ret |-> {candidate}, ssid_list |-> list,
               ssid_attempted |-> {candidate}]
                 : candidate \in all_candidate_list}
        ELSE {[ret |-> {}, ssid_list |-> list, ssid_attempted |-> {}]}

(***************************************************************************)
(* Poll.  ec holds the answers the EC and the PDDB may give.               *)
(***************************************************************************)
\* the passphrase of the candidate is fetched and the join issued; pw is
\* what opening and reading the passphrase gave
TryJoin(m, pw) ==
    LET m1 == [m EXCEPT !.last.pw = pw]
    IN  CASE pw = "ok" ->
                [Cmd(Cmd(Cmd(m1, "set_ssid"), "set_pass"), "join")
                   EXCEPT !.wifi_state = "Connecting"]
          [] pw = "read_err" -> m1
          [] OTHER -> Panic(m1)

\* the call of get_next_ssid is logged with the commands
PollIdle(m, ap_list, ec) ==
    LET m0 == IF m.scan_state = "Scanning"
              THEN [Cmd(m, "scan_off") EXCEPT !.scan_state = "Idle"]
              ELSE m
        m1 == Cmd(m0, "select")
    IN  UNION {
          LET m2 == [m1 EXCEPT !.ssid_list = o.ssid_list,
                               !.ssid_attempted = o.ssid_attempted]
          IN  IF o.ret = {} THEN {m2} ELSE {TryJoin(m2, pw) : pw \in ec.pw}
          : o \in get_next_ssid(m1.ssid_list, m1.ssid_attempted, ap_list)}

\* a variant that gives up one Poll later
PollWaiting_OneMore(m) ==
    LET m1 == [m EXCEPT !.wait_count = @ + 1]
    IN  IF m1.wait_count > INTERVALS_BEFORE_RETRY + 1
        THEN [m1 EXCEPT !.wait_count = 0, !.wifi_state = "Retry"]
        ELSE m1

\* a variant that gives up one Poll earlier
PollWaiting_AtThreshold(m) ==
    LET m1 == [m EXCEPT !.wait_count = @ + 1]
    IN  IF m1.wait_count >= INTERVALS_BEFORE_RETRY
        THEN [m1 EXCEPT !.wait_count = 0, !.wifi_state = "Retry"]
        ELSE m1

PollWaiting(m) ==
    LET m1 == [m EXCEPT !.wait_count = @ + 1]
    IN  IF m1.wait_count > INTERVALS_BEFORE_RETRY
        THEN [m1 EXCEPT !.wait_count = 0, !.wifi_state = "Retry"]
        ELSE m1

PollConnected(m, status) == Broadcast([m EXCEPT !.wifi_stats_cache = status])

\* match wifi_state { ... }
PollDispatch(m, ap_list, ec) ==
    LET m1 == [m EXCEPT !.last.recon = TRUE]
    IN  CASE m1.wifi_state \in IdleStates -> PollIdle(m1, ap_list, ec)
          [] m1.wifi_state \in {"WaitDhcp", "Connecting"} -> {PollWaiting(m1)}
          [] m1.wifi_state = "Retry" -> {Restart(m1, "leave")}
          [] m1.wifi_state = "Error" -> {Restart(m1, "wifi_reset")}
          [] m1.wifi_state = "Connected" ->
                {PollConnected(m1, status) : status \in ec.status}

\* if last_wifi_state == Connected && wifi_state != Connected { ... }
PollEdge(m) ==
    IF m.last_wifi_state = "Connected" /\ m.wifi_state # "Connected"
    THEN Broadcast([m EXCEPT !.wifi_stats_cache = DefaultStatus])
    ELSE m

\* the body of `if pddb.is_mounted() && rev_ok`
PollMounted(m, ec) ==
    LET m1 == PollEdge([m EXCEPT !.mounted = TRUE])
    IN  IF m1.panicked THEN {m1}
        ELSE UNION {IF keys.ok THEN PollDispatch(m1, keys.keys, ec) ELSE {m1}
                      : keys \in ec.keys}

\* pddb.is_mounted() answered is_mounted
IsMounted(m, is_mounted) ==
    [m EXCEPT !.last.pddb = IF is_mounted THEN "yes" ELSE "no"]

\* a variant that does not look at rev_ok
PollGate_AnyRev(m, ec) ==
    LET before == m.activity_interval
        m1 == [m EXCEPT !.activity_interval =
                            Min(before + m.current_interval, ActivityCap)]
    IN  IF before > m.current_interval
        THEN LET m2 == [m1 EXCEPT !.last.gate = TRUE]
                 inner ==
                    UNION {LET m3 == IsMounted(m2, is_mounted)
                           IN  IF is_mounted
                               THEN PollMounted(m3, ec) ELSE {m3}
                             : is_mounted \in ec.mounted}
             IN  {IF x.panicked THEN x
                  ELSE [x EXCEPT !.last_wifi_state = x.wifi_state]
                    : x \in inner}
        ELSE {m1}

\* the activity gate: fetch_add returns the value before the addition
PollGate(m, ec) ==
    LET before == m.activity_interval
        m1 == [m EXCEPT !.activity_interval =
                            Min(before + m.current_interval, ActivityCap)]
    IN  IF before > m.current_interval
        THEN LET m2 == [m1 EXCEPT !.last.gate = TRUE]
                 inner ==
                    UNION {LET m3 == IsMounted(m2, is_mounted)
                           IN  IF is_mounted /\ m3.rev_ok
                               THEN PollMounted(m3, ec) ELSE {m3}
                             : is_mounted \in ec.mounted}
             IN  {IF x.panicked THEN x
                  ELSE [x EXCEPT !.last_wifi_state = x.wifi_state]
                    : x \in inner}
        ELSE {m1}

\* a variant that broadcasts the RSSI whether it changed or not
PollRssi_Always(m, ec) ==
    IF m.wifi_state = "Connected" /\ m.wifi_stats_cache.ssid # {} /\ ~m.panicked
    THEN {Broadcast([m EXCEPT !.last.rssi = rssi_u8,
                              !.wifi_stats_cache.ssid = {rssi_u8}])
            : rssi_u8 \in ec.rssi}
    ELSE {m}

\* the RSSI update: only in Connected with an SSID in the cache
PollRssi(m, ec) ==
    IF m.wifi_state = "Connected" /\ m.wifi_stats_cache.ssid # {} /\ ~m.panicked
    THEN {LET m1 == [m EXCEPT !.last.rssi = rssi_u8]
          IN  IF m1.wifi_stats_cache.ssid # {rssi_u8}
              THEN Broadcast([m1 EXCEPT !.wifi_stats_cache.ssid = {rssi_u8}])
              ELSE m1
            : rssi_u8 \in ec.rssi}
    ELSE {m}

\* a variant that goes to the nominal interval with the first Poll
PollInterval_Nominal(m) ==
    IF m.panicked THEN m
    ELSE [m EXCEPT !.current_interval = POLL_INTERVAL_MS]

PollInterval(m) ==
    IF m.panicked THEN m
    ELSE IF ~m.mounted
    THEN [m EXCEPT !.current_interval = BOOT_POLL_INTERVAL_MS]
    ELSE [m EXCEPT !.current_interval = POLL_INTERVAL_MS]

PollHandler(m, ec) ==
    {PollInterval(m2) :
        m2 \in UNION {PollRssi(m1, ec) : m1 \in PollGate(m, ec)}}

(***************************************************************************)
(* ComInt: the interrupt mask is walked bit by bit, lowest bit first.      *)
(***************************************************************************)
\* ComIntSources::from(u16): the source of one mask bit (0: no source)
ComIntSourceOf(v) ==
    CASE v = 2 -> "WlanIpConfigUpdate"
      [] v = 4 -> "WlanSsidScanUpdate"
      [] v = 64 -> "Disconnect"
      [] v = 128 -> "Connect"
      [] v = 256 -> "WlanSsidScanFinished"
      [] OTHER -> "Ignored"

\* mask_bit & (ints as u16)
BitAnd1(mask_bit, ints) ==
    IF mask_bit # 0 /\ (ints \div mask_bit) % 2 = 1 THEN mask_bit ELSE 0

\* mask_bit <<= 1 on a u16
Shl1(mask_bit) == (mask_bit * 2) % 65536

\* a variant that takes a join that timed out for one the AP refused
IntConnect_TimeoutAuth(m, res) ==
    LET m1 == [m EXCEPT !.last.res = res]
    IN  CASE res = "Success" ->
                [Cmd(m1, "scan_off") EXCEPT !.scan_state = "Idle",
                                            !.activity_interval = 0,
                                            !.wifi_state = "WaitDhcp"]
          [] res = "NoMatchingAp" -> [m1 EXCEPT !.wifi_state = "InvalidAp"]
          [] res \in {"Reject", "AuthFail", "Timeout"} ->
                [m1 EXCEPT !.wifi_state = "InvalidAuth"]
          [] res = "Aborted" -> [m1 EXCEPT !.wifi_state = "Retry"]
          [] res = "Error" -> [m1 EXCEPT !.wifi_state = "Error"]
          [] res = "Pending" -> [m1 EXCEPT !.wifi_state = "Error"]

IntConnect(m, res) ==
    LET m1 == [m EXCEPT !.last.res = res]
    IN  CASE res = "Success" ->
                [Cmd(m1, "scan_off") EXCEPT !.scan_state = "Idle",
                                            !.activity_interval = 0,
                                            !.wifi_state = "WaitDhcp"]
          [] res = "NoMatchingAp" -> [m1 EXCEPT !.wifi_state = "InvalidAp"]
          [] res = "Timeout" -> [m1 EXCEPT !.wifi_state = "Retry"]
          [] res \in {"Reject", "AuthFail"} ->
                [m1 EXCEPT !.wifi_state = "InvalidAuth"]
          [] res = "Aborted" -> [m1 EXCEPT !.wifi_state = "Retry"]
          [] res = "Error" -> [m1 EXCEPT !.wifi_state = "Error"]
          [] res = "Pending" -> [m1 EXCEPT !.wifi_state = "Error"]

IntDisconnect(m) ==
    [Cmd([m EXCEPT !.ssid_list = {}], "scan_on")
       EXCEPT !.scan_state = "Scanning", !.wifi_state = "Disconnected"]

\* for (_rssi, ssid) in slist.iter() { ssid_list.insert(ssid.to_string()) }
\* a variant that replaces the list by what was fetched
IntScanFold_Replace(m, slist) == [m EXCEPT !.ssid_list = slist]

IntScanFold(m, slist) == [m EXCEPT !.ssid_list = @ \cup slist]

IntScanUpdate(m, slist) == IntScanFold(Fetched(m, slist, FALSE), slist)

IntScanFinished(m, slist) ==
    [IntScanFold(Fetched(m, slist, TRUE), slist) EXCEPT !.scan_state = "Idle"]

\* a variant that refreshes the cache and does not broadcast it
IntIpConfigUpdate_Silent(m, status) ==
    [m EXCEPT !.activity_interval = 0,
              !.wifi_state = "Connected",
              !.wifi_stats_cache = status]

\* a variant that takes an update received in Connected for a configuration
\* to wait for again
IntIpConfigUpdate_Renew(m, status) ==
    Broadcast([m EXCEPT !.activity_interval = 0,
                        !.wifi_state = IF @ = "Connected" THEN "WaitDhcp"
                                       ELSE "Connected",
                        !.wifi_stats_cache = status])

IntIpConfigUpdate(m, status) ==
    Broadcast([m EXCEPT !.activity_interval = 0,
                        !.wifi_state = "Connected",
                        !.wifi_stats_cache = status])

\* A round of `for _ in 0..16` in which mask_bit meets no bit of ints only
\* shifts mask_bit.  <<mask_bit, n>> after the rounds of that kind that come
\* first among the next n.
RECURSIVE ComIntSkip(_, _, _)
ComIntSkip(mask_bit, n, ints) ==
    IF n = 0 \/ mask_bit = 0 \/ mask_bit > ints THEN <<mask_bit, 0>>
    ELSE IF BitAnd1(mask_bit, ints) # 0 THEN <<mask_bit, n>>
    ELSE ComIntSkip(Shl1(mask_bit), n - 1, ints)

\* The records the next n rounds of the loop can leave, from the record m.
\* fails: how many more calls of ssid_fetch_as_list() fail.  A failed fetch is
\* `continue`, which skips the rest of the round, the shift of mask_bit
\* included, so the next round meets the same bit again.  Every round that
\* enters the arm of a source is logged.
RECURSIVE ComIntLoop(_, _, _, _, _, _, _)
ComIntLoop(m, n, mask_bit, ints, res, fails, ec) ==
    LET at == ComIntSkip(mask_bit, n, ints)
        bit == at[1]
        left == at[2]
        src == ComIntSourceOf(BitAnd1(bit, ints))
        Rest(ms) ==
            IF ComIntSkip(Shl1(bit), left - 1, ints)[2] = 0 THEN ms
            ELSE UNION {ComIntLoop(x, left - 1, Shl1(bit), ints, res, fails,
                                   ec) : x \in ms}
        h == Handling(m, src)
        Refetch == ComIntLoop(h, left - 1, bit, ints, res, fails - 1, ec)
    IN  IF left = 0 \/ m.panicked THEN {m}
        ELSE CASE src = "Connect" -> Rest({IntConnect(h, res)})
               [] src = "Disconnect" -> Rest({IntDisconnect(h)})
               [] src = "WlanSsidScanUpdate" ->
                     IF fails > 0 THEN Refetch
                     ELSE Rest({IntScanUpdate(h, slist) : slist \in ec.slist})
               [] src = "WlanSsidScanFinished" ->
                     IF fails > 0 THEN Refetch
                     ELSE Rest({IntScanFinished(h, slist)
                                  : slist \in ec.slist})
               [] src = "WlanIpConfigUpdate" ->
                     Rest({IntIpConfigUpdate(h, status)
                             : status \in ec.status})
               [] OTHER -> Rest({m})

ComIntHandler(m, ints, res, fails, ec) ==
    ComIntLoop([m EXCEPT !.last.ints = ints, !.last.fetch_fail = fails],
               16, 1, ints, res, fails, ec)

\* the interrupt masks the EC sends in the model: each source alone, a bit
\* that belongs to no source of this service, and some combinations
IntMasks == {1, 2, 4, 64, 128, 256, 66, 260}

\* how many calls of ssid_fetch_as_list() fail before one succeeds: none, or
\* so many that the rounds run out (with mask 260, after ScanUpdate was
\* handled and before ScanFinished is reached; with 256, before anything is)
FetchFailures == {0, 8}

HasSource(ints, src) ==
    \E b \in {2, 4, 64, 128, 256} :
        BitAnd1(b, ints) # 0 /\ ComIntSourceOf(b) = src

\* the inputs that go with a mask: the ConnectResult if it has the Connect
\* bit, the failing fetches if it has a scan bit
IntInputOk(x) ==
    /\ (x.res # "none") = HasSource(x.ints, "Connect")
    /\ (x.fails # 0) =>
          \/ HasSource(x.ints, "WlanSsidScanUpdate")
          \/ HasSource(x.ints, "WlanSsidScanFinished")

IntInputs ==
    {x \in [ints : IntMasks, res : ConnectResults \cup {"none"},
            fails : FetchFailures] : IntInputOk(x)}

\* every result the handler of one ComInt message can have
ComIntResults(m, ec) ==
    UNION {ComIntHandler(m, x.ints, x.res, x.fails, ec) : x \in IntInputs}

(***************************************************************************)
(* SubscribeWifiStats and UnsubWifiStats.                                  *)
(***************************************************************************)
\* connect_ok: xous::connect to the subscriber's server succeeds
SubscribeHandler(m, sid, connect_ok) ==
    LET m1 == [m EXCEPT !.last.sid = sid]
    IN  IF connect_ok
        THEN [m1 EXCEPT !.sub_conns = @ \cup {sid},
                        !.status_subscribers = @ \cup {sid}]
        ELSE Panic(m1)

\* xous::return_scalar(msg.sender, 1): what is registered and connected at
\* that moment is recorded with the command
Ack(m) ==
    [m EXCEPT !.out = Append(@, [op |-> "ack", scan |-> m.scan_state,
                                 subs |-> m.status_subscribers,
                                 conns |-> m.sub_conns])]

\* status_subscribers.remove(&cid); xous::disconnect(cid)
UnsubRemove(m, cid) ==
    Cmd([m EXCEPT !.status_subscribers = @ \ {cid}, !.sub_conns = @ \ {cid}],
        "disconnect")

\* a variant that tears the subscription down before it acknowledges
UnsubHandler_RemoveFirst(m, sid, ack_ok) ==
    LET m1 == [m EXCEPT !.last.sid = sid]
        valid_sid == {cid \in m1.status_subscribers : cid = sid}
        m2 == IF valid_sid # {} THEN UnsubRemove(m1, sid) ELSE m1
    IN  IF ack_ok THEN Ack(m2) ELSE Panic(m2)

\* ack_ok: the acknowledgement can be returned to the caller
UnsubHandler(m, sid, ack_ok) ==
    LET m1 == [m EXCEPT !.last.sid = sid]
        valid_sid == {cid \in m1.status_subscribers : cid = sid}
    IN  IF ~ack_ok THEN Panic(m1)
        ELSE IF valid_sid # {} THEN UnsubRemove(Ack(m1), sid)
        ELSE Ack(m1)

(***************************************************************************)
(* The state after construction, and the actions: one per handler.         *)
(***************************************************************************)
HasCmd(o, op) == \E i \in 1..Len(o) : o[i].op = op

\* the set_ssid_scanning(true) calls among the commands o
ScanStarts(o) == SelectSeq(o, LAMBDA c : c.op = "scan_on")

CountDefault(snaps) ==
    Cardinality({i \in 1..Len(snaps) : snaps[i] = DefaultStatus})

Waiting(s) == s \in {"Connecting", "WaitDhcp"}

\* the selector's own specification is not run
SelIdle ==
    /\ sel_visible = {} /\ sel_known = {} /\ sel_attempted = {}
    /\ sel_attempted0 = {} /\ sel_returned = {} /\ sel_calls = 0
    /\ sel_ret = {} /\ sel_before = [ssid_list |-> {}, ssid_attempted |-> {}]

\* connection_manager() up to its loop, with the EC revision check's result
Construct(rev) ==
    /\ rev_ok = rev
    /\ mounted = FALSE
    /\ current_interval = BOOT_POLL_INTERVAL_MS
    /\ activity_interval = 0
    /\ wifi_stats_cache = DefaultStatus
    /\ wifi_state = "Unknown"
    /\ last_wifi_state = "Unknown"
    /\ ssid_list = {}
    /\ ssid_attempted = {}
    /\ wait_count = 0
    /\ scan_state = "Scanning"
    /\ status_subscribers = {}
    /\ sub_conns = {}
    /\ panicked = FALSE
    /\ main_pc = "recv"
    /\ caller_acked = FALSE
    /\ run = rev
    /\ pumping = FALSE
    /\ pump_q = <<"Pump">>
    /\ pump_pc = "recv"
    /\ pump_acked = FALSE

Observe(t) ==
    /\ track = t
    /\ out = <<>>
    /\ sent = <<>>
    /\ last = NoLabel
    /\ delivered = <<>>
    /\ joins = 0
    /\ scan_req = TRUE
    /\ dflt = -1
    /\ polls_waiting = -1
    /\ recon_waiting = -1
    /\ poll_streak = -1
    /\ window = {}
    /\ finished = FALSE
    /\ seen = {}
    /\ stopped = "never"
    /\ stop_polls = -1
    /\ run_seen = FALSE

\* The scan history h after the commands o, in order.  A scan start opens a
\* new window; issued by the handler of an interrupt it is the one of the
\* Disconnect arm, which has just cleared ssid_list.
RECURSIVE ScanLog(_, _, _)
ScanLog(h, o, op) ==
    IF o = <<>> THEN h
    ELSE LET c == Head(o)
             h1 == CASE c.op = "scan_on" ->
                           [window |-> {}, finished |-> FALSE,
                            seen |-> IF op = "ComInt" THEN {} ELSE h.seen]
                      [] c.op = "fetch" ->
                           [window |-> h.window \cup c.arg,
                            finished |-> h.finished \/ c.fin,
                            seen |-> h.seen \cup c.arg]
                      [] OTHER -> h
         IN  ScanLog(h1, Tail(o), op)

\* the history variables after a handler that leaves the record m
History(m) ==
    /\ joins' =
           IF track \notin {"joins", "oldrev"} THEN joins
           ELSE IF \/ HasCmd(m.out, "leave") \/ HasCmd(m.out, "wifi_reset")
                   \/ m.last.res # "none" THEN 0
           ELSE IF HasCmd(m.out, "join") THEN Min(joins + 1, 2)
           ELSE joins
    /\ scan_req' =
           IF track # "scan" THEN scan_req
           ELSE IF HasCmd(m.out, "scan_on") THEN TRUE
           ELSE IF m.wifi_state # wifi_state THEN FALSE
           ELSE scan_req
    /\ dflt' =
           IF track # "dflt" THEN dflt
           ELSE IF m.wifi_state = "Connected" THEN -1
           ELSE IF wifi_state = "Connected"
           THEN Min(CountDefault(m.sent), 2)
           ELSE IF dflt = -1 THEN -1
           ELSE Min(dflt + CountDefault(m.sent), 2)
    /\ polls_waiting' =
           IF track # "waiting" THEN polls_waiting
           ELSE IF HasCmd(m.out, "join") THEN 0
           ELSE IF polls_waiting >= 0 /\ Waiting(m.wifi_state)
           THEN IF m.last.op = "Poll" THEN Min(polls_waiting + 1, MaxCount)
                ELSE polls_waiting
           ELSE -1
    /\ recon_waiting' =
           IF track # "waiting" THEN recon_waiting
           ELSE IF HasCmd(m.out, "join") THEN 0
           ELSE IF recon_waiting >= 0 /\ Waiting(m.wifi_state)
           THEN IF m.last.op = "Poll" /\ m.last.recon
                THEN Min(recon_waiting + 1, MaxCount)
                ELSE recon_waiting
           ELSE -1
    /\ poll_streak' =
           IF track # "timeout" THEN poll_streak
           ELSE IF HasCmd(m.out, "join") THEN 0
           ELSE IF poll_streak >= 0 /\ m.last.op = "Poll"
           THEN Min(poll_streak + 1, MaxCount + 1)
           ELSE -1
    /\ LET h == IF track # "ssids"
                THEN [window |-> window, finished |-> finished, seen |-> seen]
                ELSE ScanLog([window |-> window, finished |-> finished,
                              seen |-> seen], m.out, m.last.op)
       IN  window' = h.window /\ finished' = h.finished /\ seen' = h.seen

\* The interrupt masks whose handlers a specification observes in full (with
\* "ipconfig", it observes the opcode of every other handler as well).
Watched(t) ==
    CASE t = "connect" -> {128}
      [] t = "scanint" -> {4, 256}
      [] t = "masks" -> {1, 66, 260}
      [] t = "ipconfig" -> {2}
      [] OTHER -> {}

ObservedInt(m) == m.last.op = "ComInt" /\ m.last.ints \in Watched(track)

\* what is observed of the handler that leaves the record m
ObservedOut(m) ==
    IF track = m.last.op \/ ObservedInt(m) THEN m.out
    ELSE IF track = "scan" THEN ScanStarts(m.out)
    ELSE IF track = "subs" /\ m.last.op = "UnsubWifiStats" THEN m.out
    ELSE <<>>

ObservedSent(m) ==
    IF track \in {m.last.op, "conn", "subs"} \/ ObservedInt(m)
    THEN m.sent ELSE <<>>

ObservedLast(m) ==
    IF track = m.last.op \/ ObservedInt(m) THEN m.last
    ELSE IF track \in {"conn", "ipconfig"} THEN Label(m.last.op)
    ELSE IF track = "timeout"
    THEN [Label(m.last.op) EXCEPT !.recon = m.last.recon]
    ELSE IF track = "subs"
    THEN [Label(m.last.op) EXCEPT !.sid = m.last.sid,
                                  !.refused = m.last.refused]
    ELSE NoLabel

\* the handler returns: its record becomes the state of the loop
Commit(m) ==
    /\ rev_ok' = m.rev_ok
    /\ mounted' = m.mounted
    /\ current_interval' = m.current_interval
    /\ activity_interval' = m.activity_interval
    /\ wifi_stats_cache' = m.wifi_stats_cache
    /\ wifi_state' = m.wifi_state
    /\ last_wifi_state' = m.last_wifi_state
    /\ ssid_list' = m.ssid_list
    /\ ssid_attempted' = m.ssid_attempted
    /\ wait_count' = m.wait_count
    /\ scan_state' = m.scan_state
    /\ status_subscribers' = m.status_subscribers
    /\ sub_conns' = m.sub_conns
    /\ panicked' = m.panicked
    /\ track' = track
    /\ out' = ObservedOut(m)
    /\ sent' = ObservedSent(m)
    /\ last' = ObservedLast(m)
    /\ delivered' = IF track = "subs" THEN m.delivered ELSE <<>>
    /\ UNCHANGED <<loopVars, pumpVars, pumpHistory>>
    /\ History(m)
    /\ UNCHANGED selVars

\* the main loop is at receive_message
Receiving == ~panicked /\ main_pc = "recv"

\* the main loop takes a message of opcode op; env is what its broadcasts
\* will meet
Receive(op, env) == WithEnv(Begin(op), env)

SuspendResume ==
    /\ Receiving
    /\ \E res_linkstate \in LinkStates,
          env \in DeliveryEnvs(status_subscribers) :
          Commit(SuspendResumeHandler(Receive("SuspendResume", env),
                                      res_linkstate))

ComInt ==
    /\ Receiving
    /\ \E env \in DeliveryEnvs(status_subscribers) :
          \E m \in ComIntResults(Receive("ComInt", env), AnyEc) : Commit(m)

Poll ==
    /\ Receiving
    /\ \E env \in DeliveryEnvs(status_subscribers) :
          \E m \in PollHandler(Receive("Poll", env), AnyEc) : Commit(m)

SubscribeWifiStats ==
    /\ Receiving
    /\ \E sid \in Subs, connect_ok \in BOOLEAN :
          Commit(SubscribeHandler(Begin("SubscribeWifiStats"), sid,
                                  connect_ok))

UnsubWifiStats ==
    /\ Receiving
    /\ \E sid \in Subs, ack_ok \in BOOLEAN :
          Commit(UnsubHandler(Begin("UnsubWifiStats"), sid, ack_ok))

Next == SuspendResume \/ ComInt \/ Poll

Init == Construct(TRUE) /\ Observe("none") /\ SelIdle

Spec == Init /\ [][Next]_vars

InitResume == Construct(TRUE) /\ Observe("SuspendResume") /\ SelIdle

SpecResume == InitResume /\ [][Next]_vars

InitPoll == Construct(TRUE) /\ Observe("Poll") /\ SelIdle

SpecPoll == InitPoll /\ [][Next]_vars

\* the same, built on any firmware
InitPollAnyRev ==
    /\ Construct(TRUE) \/ Construct(FALSE)
    /\ Observe("Poll") /\ SelIdle

SpecPollAnyRev == InitPollAnyRev /\ [][Next]_vars

InitJoins == Construct(TRUE) /\ Observe("joins") /\ SelIdle

SpecJoins == InitJoins /\ [][Next]_vars

InitScan == Construct(TRUE) /\ Observe("scan") /\ SelIdle

SpecScan == InitScan /\ [][Next]_vars

InitDflt == Construct(TRUE) /\ Observe("dflt") /\ SelIdle

SpecDflt == InitDflt /\ [][Next]_vars

InitWaiting == Construct(TRUE) /\ Observe("waiting") /\ SelIdle

SpecWaiting == InitWaiting /\ [][Next]_vars

InitTimeout == Construct(TRUE) /\ Observe("timeout") /\ SelIdle

SpecTimeout == InitTimeout /\ [][Next]_vars

InitSsids == Construct(TRUE) /\ Observe("ssids") /\ SelIdle

SpecSsids == InitSsids /\ [][Next]_vars

InitConn == Construct(TRUE) /\ Observe("conn") /\ SelIdle

SpecConn == InitConn /\ [][Next]_vars

(***************************************************************************)
(* The pump thread, and the handlers of Run, Stop and Quit.  The pump and  *)
(* the main loop are two threads: each action is one access of a shared    *)
(* flag or one message sent or received.                                   *)
(***************************************************************************)
\* the Pump messages queued at the pump thread or being processed by it
PumpTokens ==
    Len(SelectSeq(pump_q, LAMBDA x : x = "Pump"))
      + (IF pump_pc \in {"check", "store", "emit", "sleep"} THEN 1 ELSE 0)

\* xous::receive_message(sid) of the pump; Quit is answered at once
PumpReceive ==
    /\ pump_pc = "recv" /\ pump_q # <<>>
    /\ pump_q' = Tail(pump_q)
    /\ IF Head(pump_q) = "Pump"
       THEN pump_pc' = "check" /\ pump_acked' = pump_acked
       ELSE pump_pc' = "exit" /\ pump_acked' = TRUE
    /\ UNCHANGED <<run, pumping, machineVars, loopVars, stepVars,
                   historyVars, pumpHistory, selVars>>

\* a variant that starts a cycle whatever run is
PumpCheck_Always ==
    /\ pump_pc = "check"
    /\ pump_pc' = "store"
    /\ UNCHANGED <<run, pumping, pump_q, pump_acked, machineVars, loopVars,
                   stepVars, historyVars, pumpHistory, selVars>>

\* if run.load(..)
PumpCheck ==
    /\ pump_pc = "check"
    /\ pump_pc' = IF run THEN "store" ELSE "recv"
    /\ UNCHANGED <<run, pumping, pump_q, pump_acked, machineVars, loopVars,
                   stepVars, historyVars, pumpHistory, selVars>>

\* pumping.store(true, ..)
PumpStore ==
    /\ pump_pc = "store"
    /\ pumping' = TRUE
    /\ pump_pc' = "emit"
    /\ UNCHANGED <<run, pump_q, pump_acked, machineVars, loopVars, stepVars,
                   historyVars, pumpHistory, selVars>>

\* try_send_message(main_cid, Poll).ok(), then the thread sleeps
PumpEmit ==
    /\ pump_pc = "emit"
    /\ pump_pc' = "sleep"
    /\ stop_polls' = IF track = "pump" /\ stop_polls >= 0
                     THEN Min(stop_polls + 1, 2) ELSE stop_polls
    /\ UNCHANGED <<run, pumping, pump_q, pump_acked, machineVars, loopVars,
                   stepVars, historyVars, stopped, run_seen, selVars>>

\* the sleep is over: send_message(self_cid, Pump)
PumpResend ==
    /\ pump_pc = "sleep"
    /\ pump_q' = Append(pump_q, "Pump")
    /\ pump_pc' = "clear"
    /\ UNCHANGED <<run, pumping, pump_acked, machineVars, loopVars, stepVars,
                   historyVars, pumpHistory, selVars>>

\* pumping.store(false, ..)
PumpClear ==
    /\ pump_pc = "clear"
    /\ pumping' = FALSE
    /\ pump_pc' = "recv"
    /\ UNCHANGED <<run, pump_q, pump_acked, machineVars, loopVars, stepVars,
                   historyVars, pumpHistory, selVars>>

\* break; xous::destroy_server(sid)
PumpExit ==
    /\ pump_pc = "exit"
    /\ pump_pc' = "done"
    /\ UNCHANGED <<run, pumping, pump_q, pump_acked, machineVars, loopVars,
                   stepVars, historyVars, pumpHistory, selVars>>

PumpStep ==
    \/ PumpReceive \/ PumpCheck \/ PumpStore \/ PumpEmit
    \/ PumpResend \/ PumpClear \/ PumpExit

\* Run: if !run.swap(true, ..)
RunSwap ==
    /\ Receiving
    /\ run' = TRUE
    /\ main_pc' = IF run THEN "recv" ELSE "run_load"
    /\ stopped' = IF track = "pump" /\ stopped # "never"
                  THEN "rerun" ELSE stopped
    /\ stop_polls' = IF track = "pump" THEN -1 ELSE stop_polls
    /\ run_seen' = IF track = "oldrev" THEN TRUE ELSE run_seen
    /\ UNCHANGED <<pumping, pump_q, pump_pc, pump_acked, caller_acked,
                   machineVars, stepVars, historyVars, selVars>>

\* a variant that takes the pump for running whatever pumping is
RunLoad_NoKick ==
    /\ main_pc = "run_load"
    /\ main_pc' = "recv"
    /\ UNCHANGED <<caller_acked, pumpVars, machineVars, stepVars,
                   historyVars, pumpHistory, selVars>>

\* Run: if !pumping.load(..)
RunLoad ==
    /\ main_pc = "run_load"
    /\ main_pc' = IF pumping THEN "recv" ELSE "run_send"
    /\ UNCHANGED <<caller_acked, pumpVars, machineVars, stepVars,
                   historyVars, pumpHistory, selVars>>

\* Run: send_message(run_cid, Pump)
RunSend ==
    /\ main_pc = "run_send"
    /\ PumpTokens < MaxTokens
    /\ pump_q' = Append(pump_q, "Pump")
    /\ main_pc' = "recv"
    /\ UNCHANGED <<run, pumping, pump_pc, pump_acked, caller_acked,
                   machineVars, stepVars, historyVars, pumpHistory, selVars>>

\* Stop: run.store(false, ..)
Stop ==
    /\ Receiving
    /\ run' = FALSE
    /\ stopped' = IF track = "pump" THEN "stopped" ELSE stopped
    /\ stop_polls' = IF track = "pump" THEN 0 ELSE stop_polls
    /\ UNCHANGED <<pumping, pump_q, pump_pc, pump_acked, loopVars, run_seen,
                   machineVars, stepVars, historyVars, selVars>>

\* Quit: the blocking send of PumpOp::Quit
QuitSend ==
    /\ Receiving
    /\ pump_q' = Append(pump_q, "Quit")
    /\ main_pc' = "quit_wait"
    /\ UNCHANGED <<run, pumping, pump_pc, pump_acked, caller_acked,
                   machineVars, stepVars, historyVars, pumpHistory, selVars>>

\* Quit: the pump has answered; disconnect(run_cid), return_scalar to the
\* caller, break, disconnect(self_cid), destroy_server(sid)
QuitReturn ==
    /\ main_pc = "quit_wait" /\ pump_acked
    /\ caller_acked' = TRUE
    /\ main_pc' = "exited"
    /\ UNCHANGED <<pumpVars, machineVars, stepVars, historyVars, pumpHistory,
                   selVars>>

RunStep == RunSwap \/ RunLoad \/ RunSend

QuitStep == QuitSend \/ QuitReturn

PumpInit ==
    /\ Construct(TRUE) \/ Construct(FALSE)
    /\ Observe("pump") /\ SelIdle

PumpNext ==
    \/ PumpStep \/ RunStep \/ Stop \/ QuitStep
    \/ SubscribeWifiStats \/ UnsubWifiStats

PumpSpec == PumpInit /\ [][PumpNext]_vars

\* The pump thread is scheduled and its sleep ends; the main loop, once in a
\* handler, goes on with it.
FairPumpSpec ==
    /\ PumpInit
    /\ [][PumpNext]_vars
    /\ WF_vars(PumpStep)
    /\ WF_vars(RunLoad \/ RunSend \/ QuitReturn)

\* The machine built on firmware older than MIN_EC_REV, with every message
\* the main loop handles apart from Quit and the subscriptions.
InitOldRev == Construct(FALSE) /\ Observe("oldrev") /\ SelIdle

OldRevNext == Next \/ RunStep \/ Stop

SpecOldRev == InitOldRev /\ [][OldRevNext]_vars

(***************************************************************************)
(* The machine in a favourable environment, with fair scheduling.  The     *)
(* PDDB is mounted and holds the passphrase of every SSID, every SSID is   *)
(* in range, and the EC sends an interrupt only for what it is doing: scan *)
(* results while a scan runs, the result of a join while the machine waits *)
(* for it, the IP configuration after a successful join, a disconnect      *)
(* while associated.  The pump keeps sending Poll, and the EC does not     *)
(* withhold for ever an interrupt it owes.                                 *)
(***************************************************************************)
FairPoll ==
    /\ Receiving
    /\ \E env \in DeliveryEnvs(status_subscribers) :
          \E m \in PollHandler(Receive("Poll", env), NiceEc) : Commit(m)

\* the interrupt `ints` with the Connect result `res`, every fetch succeeding
FairInt(ints, res) ==
    /\ Receiving
    /\ \E env \in DeliveryEnvs(status_subscribers) :
          \E m \in ComIntHandler(Receive("ComInt", env), ints, res, 0,
                                  NiceEc) :
             Commit(m)

ScanResults ==
    /\ scan_state = "Scanning"
    /\ \E ints \in {4, 256, 260} : FairInt(ints, "none")

ConnectDone ==
    /\ wifi_state = "Connecting"
    /\ \E res \in ConnectResults : FairInt(128, res)

IpConfigured ==
    /\ wifi_state = "WaitDhcp"
    /\ FairInt(2, "none")

LinkLost ==
    /\ wifi_state \in {"WaitDhcp", "Connected"}
    /\ FairInt(64, "none")

FairNext ==
    FairPoll \/ ScanResults \/ ConnectDone \/ IpConfigured \/ LinkLost

FairSpec ==
    /\ Init
    /\ [][FairNext]_vars
    /\ WF_vars(FairPoll)
    /\ WF_vars(ScanResults)
    /\ WF_vars(ConnectDone)
    /\ WF_vars(IpConfigured)

(***************************************************************************)
(* The interrupt handler, from the states the machine reaches with any     *)
(* interrupt, any resume and the Polls of the favourable environment; each *)
(* specification observes the interrupts of some masks.                    *)
(***************************************************************************)
IntNext == SuspendResume \/ ComInt \/ FairPoll

InitConnect == Construct(TRUE) /\ Observe("connect") /\ SelIdle

SpecConnect == InitConnect /\ [][IntNext]_vars

InitScanInt == Construct(TRUE) /\ Observe("scanint") /\ SelIdle

SpecScanInt == InitScanInt /\ [][IntNext]_vars

InitIpConfig == Construct(TRUE) /\ Observe("ipconfig") /\ SelIdle

SpecIpConfig == InitIpConfig /\ [][IntNext]_vars

InitMasks == Construct(TRUE) /\ Observe("masks") /\ SelIdle

SpecMasks == InitMasks /\ [][IntNext]_vars

(***************************************************************************)
(* The subscribers' registry: servers subscribe and unsubscribe while the  *)
(* machine runs in the favourable environment, and a delivery may fail.    *)
(***************************************************************************)
SubsInit == Construct(TRUE) /\ Observe("subs") /\ SelIdle

SubsNext == FairNext \/ SubscribeWifiStats \/ UnsubWifiStats

SubsSpec == SubsInit /\ [][SubsNext]_vars

(***************************************************************************)
(* The selector alone: repeated calls of get_next_ssid on sets of SSIDs     *)
(* 1..MaxSsid, from any visible, known and attempted sets.                  *)
(***************************************************************************)
SelSsids == 1..MaxSsid

\* calls are made up to one more than the longest cycle through the pool
SelMaxCalls == 2 * MaxSsid + 1

SelInit ==
    /\ Construct(TRUE) /\ Observe("sel")
    /\ sel_visible \in SUBSET SelSsids
    /\ sel_known \in SUBSET SelSsids
    /\ sel_attempted \in SUBSET SelSsids
    /\ sel_attempted0 = sel_attempted
    /\ sel_returned = {}
    /\ sel_calls = 0
    /\ sel_ret = {}
    /\ sel_before = [ssid_list |-> sel_visible, ssid_attempted |-> sel_attempted]

SelCall ==
    /\ sel_calls < SelMaxCalls
    /\ \E o \in get_next_ssid(sel_visible, sel_attempted, sel_known) :
          /\ sel_visible' = o.ssid_list
          /\ sel_attempted' = o.ssid_attempted
          /\ sel_ret' = o.ret
          /\ sel_returned' = sel_returned \cup o.ret
          /\ sel_before' = [ssid_list |-> sel_visible,
                            ssid_attempted |-> sel_attempted]
    /\ sel_calls' = sel_calls + 1
    /\ UNCHANGED <<sel_known, sel_attempted0>>
    /\ UNCHANGED <<machineVars, stepVars, historyVars>>
    /\ UNCHANGED <<loopVars, pumpVars, pumpHistory>>

SelNext == SelCall

SelSpec == SelInit /\ [][SelNext]_vars

(***************************************************************************)
(* The properties.                                                         *)
(***************************************************************************)
\* C1 (at most one join): between two join commands there is a leave or a
\* Connect interrupt, so no join is issued while an earlier one is still
\* outstanding.  A radio reset is counted as a leave.
C1_AtMostOneJoin == joins <= 1

\* C2 (progress): with the PDDB mounted, the firmware adequate, a known AP
\* in range and fair polling and delivery, whenever WifiState is Unknown,
\* Disconnected, InvalidAp or InvalidAuth a join is eventually issued (the
\* join is what enters Connecting).
C2_Progress == (wifi_state \in IdleStates) ~> (wifi_state = "Connecting")

\* C3 (status edge broadcast): after WifiState has left Connected, the default
\* snapshot is broadcast exactly once before the machine is Connected again:
\* never a second time, and not zero times when it becomes Connected again.
C3_DefaultOnce ==
    [][/\ dflt' <= 1
       /\ (dflt >= 0 /\ wifi_state' = "Connected") => dflt = 1]_vars

\* The second of two consecutive Polls that both ended in Connected and read
\* the same RSSI (the RSSI is read only at the end of a Poll that ends in
\* Connected, so the second Poll also started in Connected).
SameRssiTwice ==
    /\ last.op = "Poll" /\ last.prev_poll
    /\ wifi_state = "Connected"
    /\ last.rssi # NoRssi /\ last.rssi = last.prev_rssi

\* C4 (RSSI suppression), as stated: while WifiState stays Connected, the
\* second of two consecutive Polls to which the EC reports the same RSSI
\* broadcasts nothing.
C4_NoBroadcastSameRssi == SameRssiTwice => sent = <<>>

\* C4, amended: the same, for a second Poll that does not run the state
\* dispatch of the reconciliation pass (whose Connected arm broadcasts the
\* refreshed snapshot whatever the RSSI is).
C4_NoBroadcastSameRssiNoRecon ==
    (SameRssiTwice /\ ~last.recon) => sent = <<>>

C4_Witness == SameRssiTwice /\ ~last.recon /\ sent = <<>>

\* C5 (bounded Connecting), as stated: after a join, WifiState is still
\* Connecting or WaitDhcp after at most INTERVALS_BEFORE_RETRY processed
\* Polls; the next one finds it elsewhere or moves it to Retry.
C5_BoundedPolls == polls_waiting <= INTERVALS_BEFORE_RETRY

\* C5, amended: the same, counting only the Polls that reach the state
\* dispatch of the reconciliation pass.
C5_BoundedReconPolls == recon_waiting <= INTERVALS_BEFORE_RETRY

\* still waiting after more than INTERVALS_BEFORE_RETRY Polls, as many of
\* them as can be having reached the state dispatch
C5_Witness ==
    /\ Waiting(wifi_state)
    /\ recon_waiting = INTERVALS_BEFORE_RETRY
    /\ polls_waiting > INTERVALS_BEFORE_RETRY

\* the candidates of the selector's specification
SelPool == sel_visible \cap sel_known

\* C6 (selector cyclic coverage): with a non-empty pool and any initial
\* attempted set, every element of the pool has been returned once as many
\* calls were made as the pool has elements not attempted at first plus the
\* pool has elements; and a call that finds every element of the pool in
\* attempted returns an element of the pool and leaves attempted holding
\* just that element.
C6_CyclicCoverage ==
    /\ (sel_calls >= Cardinality(SelPool \ sel_attempted0)
                       + Cardinality(SelPool))
          => SelPool \subseteq sel_returned
    /\ (sel_calls > 0 /\ SelPool # {}
          /\ SelPool \subseteq sel_before.ssid_attempted)
          => /\ sel_ret # {}
             /\ sel_ret \subseteq SelPool
             /\ sel_attempted = sel_ret

\* the whole pool was attempted at first, the first call started over, and
\* each element has been returned since
C6_Witness ==
    /\ Cardinality(SelPool) = MaxSsid
    /\ SelPool \subseteq sel_attempted0
    /\ sel_calls = MaxSsid
    /\ SelPool \subseteq sel_returned

\* What the last call of the selector did; attempted_if_none is what the
\* call leaves in attempted when nothing is fresh and the pool is empty.
SelStep(attempted_if_none) ==
    LET pool == sel_before.ssid_list \cap sel_known
        fresh == pool \ sel_before.ssid_attempted
    IN  sel_calls > 0 =>
          /\ sel_visible = sel_before.ssid_list
          /\ IF fresh # {}
             THEN \E s \in fresh :
                     /\ sel_ret = {s}
                     /\ sel_attempted = sel_before.ssid_attempted \cup {s}
             ELSE IF pool # {}
             THEN \E s \in pool : sel_ret = {s} /\ sel_attempted = {s}
             ELSE sel_ret = {} /\ sel_attempted = attempted_if_none

\* C7 (selector step semantics), as stated: a fresh element is returned and
\* added to attempted; else an element of the pool is returned and attempted
\* becomes just that element; else nothing is returned; the visible set is not
\* modified, and attempted is cleared in the reseed step only.
C7_StepSemantics == SelStep(sel_before.ssid_attempted)

\* C7, amended: attempted is cleared also by the call that returns nothing
\* because the pool is empty.
C7_StepSemanticsClearing == SelStep({})

C7_Witness ==
    /\ sel_calls > 0
    /\ sel_before.ssid_list \cap sel_known = {}
    /\ sel_before.ssid_attempted # {}
    /\ sel_ret = {}
    /\ sel_attempted = {}

\* C8 (scan requested): in every state with WifiState in Unknown,
\* Disconnected, InvalidAp, InvalidAuth, a scan start has been requested since
\* the machine entered that state.
C8_ScanRequested == wifi_state \in IdleStates => scan_req

\* C9 (no overlapping scans): set_ssid_scanning(true) is issued only when
\* ScanState is Idle.
C9_ScanStartOnlyIdle ==
    \A i \in 1..Len(out) : out[i].op = "scan_on" => out[i].scan = "Idle"

\* the EC link state that corresponds to a WifiState
Corresponds(link, state) ==
    \/ link = "Connected" /\ state = "Connected"
    \/ link = "Disconnected" /\ state = "Disconnected"
    \/ link = "WFXError" /\ state = "Error"

\* C10 (resume idempotence): a SuspendResume whose reported link state
\* corresponds to the WifiState held leaves WifiState unchanged.
C10_ResumeIdempotent ==
    [][(last'.op = "SuspendResume" /\ Corresponds(last'.link, wifi_state))
          => wifi_state' = wifi_state]_vars

\* a resume that found the link Connected has left WifiState Connected, which
\* it does from Connected only
C10_Witness ==
    /\ last.op = "SuspendResume"
    /\ last.link = "Connected"
    /\ wifi_state = "Connected"

\* C12 (status cache invalidation): in every state with WifiState other than
\* Connected the cached snapshot is the default snapshot.
C12_CacheDefault ==
    wifi_state # "Connected" => wifi_stats_cache = DefaultStatus

\* C13 (Connected implies broadcast): every handler that enters Connected is
\* the handler of an interrupt, leaves ActivityInterval at 0, has refreshed
\* the cache from the EC and has broadcast a snapshot fetched from the EC; so
\* whenever WifiState is Connected such a snapshot has been broadcast since
\* the entry.
C13_ConnectedBroadcast ==
    [][(wifi_state # "Connected" /\ wifi_state' = "Connected") =>
          /\ last'.op = "ComInt"
          /\ activity_interval' = 0
          /\ wifi_stats_cache' \in EcStatuses
          /\ \E i \in 1..Len(sent') : sent'[i] \in EcStatuses]_vars

\* Connected was entered from another state by the last handler
C13_Witness ==
    /\ wifi_state = "Connected"
    /\ last.op = "ComInt"
    /\ last_wifi_state # "Connected"
    /\ sent # <<>>

\* C14 (visible set freshness), as stated: ssid_list is the set of SSIDs
\* reported by the most recent scan window.  Read here when that window is
\* complete (the scan started last has been ended by WlanSsidScanFinished).
C14_MostRecentWindow == finished => ssid_list = window

\* C14, amended: ssid_list is the set of all SSIDs fetched since construction
\* or since the most recent Disconnect interrupt, whatever scan window
\* reported them.
C14_AllSinceDisconnect == ssid_list = seen

\* the most recent window is complete and did not report an SSID that an
\* earlier one reported
C14_Witness == finished /\ window = {} /\ seen # {} /\ ssid_list = seen

\* the opcodes whose handlers broadcast
BroadcastOps == {"Poll", "ComInt", "SuspendResume"}

\* how often the n-th broadcast of the last handler was delivered to c
Deliveries(n, c) ==
    Cardinality({i \in 1..Len(delivered) :
                    delivered[i].n = n /\ delivered[i].to = c})

\* C18 (broadcast robustness): every broadcast of a handler is delivered to
\* every subscriber exactly once, and a delivery that fails neither aborts
\* the broadcast nor stops the connection manager (nor unregisters anyone:
\* the subscribers were those of the registry as it is still).
C18_BroadcastRobust ==
    last.op \in BroadcastOps =>
       /\ \A n \in 1..Len(sent), c \in status_subscribers :
              Deliveries(n, c) = 1
       /\ last.refused => ~panicked

\* C19 (unsubscribe ordering): UnsubWifiStats acknowledges exactly once, and
\* does so while the registry and the connections are still as the handler
\* found them; afterwards the subscriber named is in neither, and the others
\* are untouched (so an unknown sid is acknowledged and changes nothing);
\* and every handler delivers to servers registered when it started only, so
\* an unsubscribed server receives nothing later.
C19_UnsubOrder ==
    [][/\ (last'.op = "UnsubWifiStats" /\ ~panicked') =>
              /\ Len(out') >= 1
              /\ out'[1].op = "ack"
              /\ out'[1].subs = status_subscribers
              /\ out'[1].conns = sub_conns
              /\ \A i \in 2..Len(out') : out'[i].op # "ack"
              /\ status_subscribers' = status_subscribers \ {last'.sid}
              /\ sub_conns' = sub_conns \ {last'.sid}
              /\ (last'.sid \notin status_subscribers) => Len(out') = 1
       /\ \A i \in 1..Len(delivered') :
              delivered'[i].to \in status_subscribers]_vars

\* a registered subscriber was unsubscribed: acknowledged, then removed and
\* disconnected, the other subscriber staying
C19_Witness ==
    /\ last.op = "UnsubWifiStats" /\ ~panicked
    /\ Len(out) = 2 /\ out[1].op = "ack" /\ out[2].op = "disconnect"
    /\ last.sid \in out[1].subs
    /\ status_subscribers = out[1].subs \ {last.sid}
    /\ status_subscribers # {}

\* C11 (old firmware): built on firmware below MIN_EC_REV, run is false until
\* a Run is processed, and no join is ever issued, whatever messages are
\* processed.
C11_OldFirmwareNoJoin ==
    ~rev_ok => /\ joins = 0
               /\ ~run_seen => ~run

\* Run has been processed and Polls pass the activity gate with a visible
\* SSID in a state that selects
C11_Witness ==
    /\ ~rev_ok /\ run /\ run_seen
    /\ wifi_state \in IdleStates /\ ssid_list # {}
    /\ activity_interval > current_interval

\* C15 (Run coalescing): at most one Pump message is queued at the pump
\* thread or being processed by it.
C15_OnePumpToken == PumpTokens <= 1

\* C16 (Run restarts the pump): if from some point on run stays true and the
\* main loop has not been told to quit (no Stop comes after the last Run),
\* the pump emits a Poll again and again.
C16_RunRestarts ==
    <>[](run /\ main_pc \in {"recv", "run_load", "run_send"})
       => []<>(pump_pc = "sleep")

\* the pump has emitted a Poll after a Stop and a Run that followed it
C16_Witness == stopped = "rerun" /\ run /\ pump_pc = "sleep"

\* C17 (Stop halts the pump): after a Stop with no Run since, the pump emits
\* at most one more Poll.
C17_StopHalts == stop_polls <= 1

\* the cycle in flight has emitted its Poll after the Stop, and the pump has
\* dropped the Pump message that followed
C17_Witness ==
    /\ stopped = "stopped" /\ stop_polls = 1
    /\ pump_pc = "recv" /\ pump_q = <<>>

\* C20 (Quit): the caller of Quit is answered after the pump has answered,
\* and then the main loop has exited; once it has, no handler runs, the pump
\* emits no Poll, and no connection to a subscriber is left.
C20_QuitTerminates ==
    [][/\ caller_acked' => (pump_acked' /\ main_pc' = "exited")
       /\ main_pc' = "exited" => (caller_acked' /\ sub_conns' = {})
       /\ main_pc = "exited" =>
             /\ UNCHANGED <<machineVars, loopVars, run>>
             /\ ~(pump_pc = "emit" /\ pump_pc' = "sleep")]_vars

\* the WifiState a ConnectResult maps to
ConnectTarget(res) ==
    CASE res = "Success" -> "WaitDhcp"
      [] res = "NoMatchingAp" -> "InvalidAp"
      [] res \in {"Timeout", "Aborted"} -> "Retry"
      [] res \in {"Reject", "AuthFail"} -> "InvalidAuth"
      [] res \in {"Error", "Pending"} -> "Error"

\* the last handler processed an interrupt whose only source is that of
\* mask bit b
OnlySource(l, b) == l.op = "ComInt" /\ l.ints = b

\* C21 (Connect interrupt mapping): from any WifiState, a Connect interrupt
\* sets WifiState as its ConnectResult says: Success to WaitDhcp, with the
\* scan stopped, ScanState Idle and ActivityInterval 0; NoMatchingAp to
\* InvalidAp; Timeout and Aborted to Retry; Reject and AuthFail to
\* InvalidAuth; Error and Pending to Error; and for the results other than
\* Success, ScanState, ssid_list and ssid_attempted are unchanged.
C21_ConnectMapping ==
    [][OnlySource(last', 128) =>
          /\ wifi_state' = ConnectTarget(last'.res)
          /\ IF last'.res = "Success"
             THEN /\ HasCmd(out', "scan_off")
                  /\ scan_state' = "Idle"
                  /\ activity_interval' = 0
             ELSE UNCHANGED <<scan_state, ssid_list, ssid_attempted>>]_vars

\* a join that timed out: Retry, with the scan still running and the list
\* of SSIDs kept
C21_Witness ==
    /\ OnlySource(last, 128) /\ last.res = "Timeout"
    /\ wifi_state = "Retry"
    /\ scan_state = "Scanning" /\ ssid_list # {}

\* the names of the commands o, in order
CmdOps(o) == [i \in 1..Len(o) |-> o[i].op]

\* the commands that start a scan if none runs in the state scan
ScanIfIdle(scan) == IF scan = "Idle" THEN <<"scan_on">> ELSE <<>>

\* C22 (resume reconciliation table): after a SuspendResume, (a) with the EC
\* link Connected, WifiState Connected or Error is kept and no command is
\* issued, and any other state issues leave, resets the net stack, becomes
\* Disconnected with ScanState Scanning and posts exactly one Poll; (b) with
\* the EC link WFXError, WifiState becomes Error; (c) with any other link
\* state, Connected resets the net stack, resets the cache to the default
\* snapshot and broadcasts it, and becomes Disconnected with ScanState
\* Scanning, Error is kept, and every other state becomes Disconnected.
C22_ResumeTable ==
    [][last'.op = "SuspendResume" =>
          CASE last'.link = "Connected" ->
                  IF wifi_state \in {"Connected", "Error"}
                  THEN wifi_state' = wifi_state /\ out' = <<>>
                  ELSE /\ CmdOps(out') = <<"leave", "net_reset">>
                                           \o ScanIfIdle(scan_state)
                                           \o <<"poll">>
                       /\ wifi_state' = "Disconnected"
                       /\ scan_state' = "Scanning"
            [] last'.link = "WFXError" -> wifi_state' = "Error"
            [] OTHER ->
                  CASE wifi_state = "Connected" ->
                          /\ CmdOps(out') = <<"net_reset">>
                                              \o ScanIfIdle(scan_state)
                          /\ wifi_stats_cache' = DefaultStatus
                          /\ sent' = <<DefaultStatus>>
                          /\ wifi_state' = "Disconnected"
                          /\ scan_state' = "Scanning"
                    [] wifi_state = "Error" -> wifi_state' = "Error"
                    [] OTHER -> wifi_state' = "Disconnected"]_vars

\* the EC reported a link the machine did not expect: it left it, started a
\* scan and posted a Poll
C22_Witness ==
    /\ last.op = "SuspendResume" /\ last.link = "Connected"
    /\ wifi_state = "Disconnected"
    /\ CmdOps(out) = <<"leave", "net_reset", "scan_on", "poll">>

Recovered == last.op = "Poll" /\ HasCmd(out, "poll")

\* C24 (recovery poll): a Poll that reaches the state dispatch in Retry
\* issues leave (in Error: a radio reset), resets the net stack, becomes
\* Disconnected with ScanState Scanning and posts exactly one Poll; and when
\* the posted Poll is processed next (no scan result folded in between), the
\* scan just ensured is still running after it.
C24_RecoveryPoll ==
    [][/\ (last'.op = "Poll" /\ last'.recon
              /\ wifi_state \in {"Retry", "Error"}) =>
             /\ CmdOps(out') =
                    <<IF wifi_state = "Retry" THEN "leave" ELSE "wifi_reset",
                      "net_reset">>
                      \o ScanIfIdle(scan_state) \o <<"poll">>
             /\ wifi_state' = "Disconnected"
             /\ scan_state' = "Scanning"
       /\ (Recovered /\ last'.op = "Poll") => scan_state' = "Scanning"]_vars

\* the three conditions of the reconciliation held for the Poll labelled l
Reconciles(l) == l.gate /\ l.pddb = "yes" /\ rev_ok

\* C25 (Poll gating): a Poll reaches the state dispatch, issues a command,
\* counts in wait_count or broadcasts the default snapshot only if
\* ActivityInterval had exceeded the poll period, the PDDB is mounted and the
\* firmware is adequate; and a Poll for which one of the three fails changes
\* neither WifiState, ScanState, ssid_list, ssid_attempted nor
\* last_wifi_state, and issues no command.
C25_PollGating ==
    [][last'.op = "Poll" =>
          /\ (\/ last'.recon \/ out' # <<>> \/ wait_count' # wait_count
               \/ \E i \in 1..Len(sent') : sent'[i] = DefaultStatus)
                => Reconciles(last')
          /\ ~Reconciles(last') =>
                /\ UNCHANGED <<wifi_state, scan_state, ssid_list,
                               ssid_attempted, last_wifi_state>>
                /\ out' = <<>>]_vars

\* the SSIDs the fetches among the commands o returned
FetchedIn(o) ==
    UNION {o[i].arg : i \in {j \in 1..Len(o) : o[j].op = "fetch"}}

\* C26 (scan events): a WlanSsidScanUpdate interrupt folds the fetched SSIDs
\* into ssid_list and leaves ScanState as it was; a WlanSsidScanFinished
\* interrupt folds the fetched SSIDs into ssid_list and leaves ScanState
\* Idle, also when the fetch fails; neither changes WifiState.
C26_ScanEvents ==
    [][/\ OnlySource(last', 4) =>
             /\ ssid_list' = ssid_list \cup FetchedIn(out')
             /\ UNCHANGED <<scan_state, wifi_state>>
       /\ OnlySource(last', 256) =>
             /\ ssid_list' = ssid_list \cup FetchedIn(out')
             /\ scan_state' = "Idle"
             /\ wifi_state' = wifi_state]_vars

\* the sources of the rounds logged among the commands o, in order
HandledIn(o) ==
    LET rounds == SelectSeq(o, LAMBDA c : c.op = "int")
    IN  [i \in 1..Len(rounds) |-> rounds[i].src]

\* the sources of the bits of ints from mask_bit upwards, in ascending order
\* of the bits
RECURSIVE SourcesFrom(_, _)
SourcesFrom(mask_bit, ints) ==
    IF mask_bit = 0 \/ mask_bit > ints THEN <<>>
    ELSE LET src == ComIntSourceOf(BitAnd1(mask_bit, ints))
         IN  (IF src = "Ignored" THEN <<>> ELSE <<src>>)
               \o SourcesFrom(Shl1(mask_bit), ints)

\* C27 (interrupt mask decoding): the handler of an interrupt enters the arm
\* of each source whose bit is set exactly once, in ascending order of the
\* bits, and no other arm, also when the handling of a source fails.
C27_MaskDecoding ==
    last.op = "ComInt" => HandledIn(out) = SourcesFrom(1, last.ints)

\* C28 (adaptive interval), as stated: PollInterval is never anything but
\* BOOT or NOMINAL, and after a Poll it is NOMINAL if the PDDB is mounted at
\* that time and BOOT otherwise.  Read here for the Polls that ask the PDDB.
C28_IntervalFollowsStore ==
    /\ current_interval \in {BOOT_POLL_INTERVAL_MS, POLL_INTERVAL_MS}
    /\ (last.op = "Poll" /\ last.pddb # "unread" /\ ~panicked) =>
          current_interval = IF last.pddb = "yes" THEN POLL_INTERVAL_MS
                             ELSE BOOT_POLL_INTERVAL_MS

\* C28, amended: PollInterval is never anything but BOOT or NOMINAL, and
\* after a Poll it is NOMINAL if this Poll or an earlier one passed the
\* activity gate and found the PDDB mounted on adequate firmware (the flag
\* `mounted`, which is never cleared), and BOOT otherwise.
C28_IntervalFollowsFlag ==
    [][/\ current_interval' \in {BOOT_POLL_INTERVAL_MS, POLL_INTERVAL_MS}
       /\ (last'.op = "Poll" /\ ~panicked') =>
             /\ mounted' = (mounted \/ Reconciles(last'))
             /\ current_interval' = IF mounted' THEN POLL_INTERVAL_MS
                                    ELSE BOOT_POLL_INTERVAL_MS]_vars

\* a Poll found the PDDB not mounted and left the nominal interval, an
\* earlier one having found it mounted
C28_Witness ==
    /\ last.op = "Poll" /\ last.pddb = "no" /\ ~panicked
    /\ mounted /\ current_interval = POLL_INTERVAL_MS

\* what opening and reading a passphrase gives when it cannot be used
BadPw == {"open_err", "read_err", "not_utf8"}

\* the calls of get_next_ssid among the commands o
Selections(o) == Cardinality({i \in 1..Len(o) : o[i].op = "select"})

\* C29 (CredentialMissing): a Poll whose candidate's passphrase cannot be
\* opened, read or decoded as UTF-8 leaves the machine running, and selects
\* again within the same Poll (so the passphrase it asked for last is that
\* of a later candidate, not one it joined with).
C29_CredentialMissing ==
    (last.op = "Poll" /\ last.pw \in BadPw) =>
       /\ ~panicked
       /\ Selections(out) >= 2

\* C30 (duplicate IpConfigUpdate is harmless): a WlanIpConfigUpdate
\* interrupt leaves WifiState Connected whatever was processed before it (a
\* Poll, in particular), and one processed right after another leaves
\* WifiState, ScanState, ssid_list, ssid_attempted, wait_count and
\* ActivityInterval as the first left them.
C30_DuplicateHarmless ==
    [][/\ OnlySource(last', 2) => wifi_state' = "Connected"
       /\ (OnlySource(last, 2) /\ OnlySource(last', 2)) =>
             UNCHANGED <<wifi_state, scan_state, ssid_list, ssid_attempted,
                         wait_count, activity_interval>>]_vars

\* the update came after a Poll that had counted in wait_count
C30_Witness ==
    /\ OnlySource(last, 2) /\ last.prev_poll
    /\ wifi_state = "Connected" /\ wait_count > 0

\* C31 (fresh timeout per attempt): wait_count is 0 at every entry into
\* Connecting, however the attempts before ended.
C31_FreshTimeout ==
    [][(wifi_state' = "Connecting" /\ wifi_state # "Connecting")
          => wait_count' = 0]_vars

\* C32 (Connected only after association): WifiState becomes Connected only
\* from WaitDhcp; an IpConfigUpdate that arrives in any other state does not
\* make the machine Connected.
C32_ConnectedFromWaitDhcp ==
    [][(wifi_state' = "Connected" /\ wifi_state # "Connected")
          => wifi_state = "WaitDhcp"]_vars

====
